---------------------------- MODULE Spec2Model ----------------------------
(***************************************************************************)
(* A model of the menu voice agent backend (src/app.py): the menu          *)
(* resolution engine (search_items, similarity_score, search_menu) and the *)
(* order ledger (get_or_create_session, calculate_item_price,              *)
(* add_to_order, remove_from_order, clear_order, get_order_summary).       *)
(*                                                                         *)
(* Conventions.                                                            *)
(*  - Text is a sequence of one-character strings, so that lower(),        *)
(*    strip(), the `in` substring test and difflib's matching blocks are   *)
(*    computed character by character.                                     *)
(*  - Money is an integer number of mills (1/1000 of the currency unit);   *)
(*    Python's round(x, 2) is Round2, round-half-to-even to a multiple of  *)
(*    10 mills.  The catalog prices used are binary fractions (x.5, x.125),*)
(*    on which the float computation and the decimal one agree.            *)
(*  - A score is a fraction <<num, den>> with den > 0; 1.0 is <<1, 1>>,    *)
(*    0.9 is <<9, 10>> and a ratio 2.0*M/T is <<2*M, T>>.                  *)
(*  - A request body is a record; a key the body does not carry is absent  *)
(*    from the record's domain (data.get(key, default) is Get).            *)
(***************************************************************************)
EXTENDS Integers, Sequences, FiniteSets, TLC

VARIABLES
    menu_data,   \* the catalog: the items of menu_data['items'], in iteration order
    orders,      \* the session store: session id -> [items, total, created_at]
    next_uuid,   \* how many identifiers uuid.uuid4() has produced so far, plus one
    request,     \* the request handled last: [op, data]
    response,    \* the response to it
    threads,     \* the request-handling threads: each one's position in its
                 \* handler and its locals (used where handlers run in steps)
    detached     \* carts deleted from the store that a handler still references

vars == <<menu_data, orders, next_uuid, request, response, threads, detached>>

---------------------------------------------------------------------------
(* Bounds of the model. *)

\* uuid4 identifiers the ledger may mint in one run.
MaxSessions == 2
\* order lines the whole store may hold at one time.
MaxLines == 2
\* items of a catalog the engine is run against.
MaxItems == 2
\* characters of a query.
MaxQueryLen == 3
\* modifier ids of one call of the pricing function.
MaxModifiers == 2
\* request-handling threads of the server.
MaxThreads == 2
\* requests one thread handles in a run.
MaxRequests == 2

---------------------------------------------------------------------------
(* Values. *)

\* Python's None, and every other falsy session id (missing key, null, "").
None == 0
\* A missing, null or empty item id.
NoItem == ""
\* A session id a caller made up: truthy, and never one uuid4 returns.
Foreign == -1

Pancakes == <<"P", "a", "n", "c", "a", "k", "e", "s">>
Omelet == <<"O", "m", "e", "l", "e", "t">>

\* The catalog the ledger runs against.  P1 is the item of the spec's example;
\* O1 carries a required and an optional modifier group which share the
\* option id m1, and an option m2 whose price makes base + modifiers fall
\* between two cents.
LedgerMenu ==
    << [id |-> "P1", name |-> Pancakes, category |-> "Breakfast",
        base_price |-> 8000,
        modifiers |-> [required |-> <<>>, optional |-> <<>>]],
       [id |-> "O1", name |-> Omelet, category |-> "Breakfast",
        base_price |-> 5500,
        modifiers |->
          [required |-> << [group_name |-> "Eggs",
                            options |-> << [id |-> "m1", price |-> 500],
                                           [id |-> "m2", price |-> 125] >>] >>,
           optional |-> << [group_name |-> "Extras",
                            options |-> << [id |-> "m1", price |-> 1000],
                                           [id |-> "m3", price |-> 0] >>] >>]] >>

---------------------------------------------------------------------------
(* Helpers standing for Python built-ins. *)

\* dict.get(key, default) on a request body.
Get(data, key, default) == IF key \in DOMAIN data THEN data[key] ELSE default

\* round(x, 2) on mills: to the nearest multiple of 10, ties to the even one.
Round2(x) ==
    LET q == x \div 10
        r == x % 10
    IN  IF r < 5 THEN q * 10
        ELSE IF r > 5 THEN (q + 1) * 10
        ELSE IF q % 2 = 0 THEN q * 10 ELSE (q + 1) * 10

\* A variant of Pop: pop() without its argument, which takes the last element.
PopLast(seq, i) == SubSeq(seq, 1, Len(seq) - 1)

\* list.pop(i) leaves the list without its i-th element (i is 1-based here).
Pop(seq, i) == [k \in 1..(Len(seq) - 1) |-> IF k < i THEN seq[k] ELSE seq[k + 1]]

\* sum(...) over a sequence of numbers.
RECURSIVE Sum(_)
Sum(seq) == IF seq = <<>> THEN 0 ELSE seq[1] + Sum(Tail(seq))

\* menu_data['items'].get(item_id) is truthy.
HasItem(item_id) == \E k \in 1..Len(menu_data) : menu_data[k].id = item_id

\* menu_data['items'][item_id], for an item id of the catalog.
Item(item_id) ==
    menu_data[CHOOSE k \in 1..Len(menu_data) : menu_data[k].id = item_id]

---------------------------------------------------------------------------
(* Utility functions of the ledger. *)

\* A variant of GroupPrice in which a group without the id adds the price of
\* its first option.
GroupPrice_first_option(group, modifier_id) ==
    LET hits == {k \in 1..Len(group.options) : group.options[k].id = modifier_id}
    IN  IF hits = {} THEN (IF group.options = <<>> THEN 0 ELSE group.options[1].price)
        ELSE group.options[CHOOSE k \in hits : \A h \in hits : k <= h].price

\* for option in group['options']: if option['id'] == modifier_id:
\*     total += option['price']; break
\* The break leaves the loop over one group's options: what a group adds is
\* the price of its first option with that id, or nothing.
GroupPrice(group, modifier_id) ==
    LET hits == {k \in 1..Len(group.options) : group.options[k].id = modifier_id}
    IN  IF hits = {} THEN 0
        ELSE group.options[CHOOSE k \in hits : \A h \in hits : k <= h].price

\* for group in item['modifiers']['required'] + item['modifiers']['optional']
ModifierPrice(item, modifier_id) ==
    LET groups == item.modifiers.required \o item.modifiers.optional
    IN  Sum([g \in 1..Len(groups) |-> GroupPrice(groups[g], modifier_id)])

\* A variant of calculate_item_price that returns the sum unrounded.
calculate_item_price_unrounded(item_id, modifier_ids) ==
    IF ~HasItem(item_id) THEN 0
    ELSE Item(item_id).base_price
         + Sum([m \in 1..Len(modifier_ids) |->
                  ModifierPrice(Item(item_id), modifier_ids[m])])

calculate_item_price(item_id, modifier_ids) ==
    IF ~HasItem(item_id) THEN 0
    ELSE Round2(Item(item_id).base_price
                + Sum([m \in 1..Len(modifier_ids) |->
                         ModifierPrice(Item(item_id), modifier_ids[m])]))

\* A variant of get_or_create_session that starts the cart of a known session
\* afresh.
get_or_create_session_reset(session_id) ==
    IF session_id # None /\ session_id \in DOMAIN orders
    THEN [session_id |-> session_id,
          orders |-> [orders EXCEPT ![session_id] =
                        [items |-> <<>>, total |-> 0, created_at |-> @.created_at]],
          next_uuid |-> next_uuid]
    ELSE [session_id |-> next_uuid,
          orders |-> orders @@ (next_uuid :>
                       [items |-> <<>>, total |-> 0, created_at |-> next_uuid]),
          next_uuid |-> next_uuid + 1]

\* A variant of get_or_create_session whose new identifier is not unique: it
\* is a key of the store whenever the store has one.
get_or_create_session_collide(session_id) ==
    IF session_id # None /\ session_id \in DOMAIN orders
    THEN [session_id |-> session_id, orders |-> orders, next_uuid |-> next_uuid]
    ELSE LET new_session_id ==
                 IF DOMAIN orders = {} THEN next_uuid
                 ELSE CHOOSE k \in DOMAIN orders : TRUE
         IN  [session_id |-> new_session_id,
              orders |-> (new_session_id :>
                            [items |-> <<>>, total |-> 0, created_at |-> next_uuid])
                         @@ orders,
              next_uuid |-> next_uuid + 1]

\* A variant of get_or_create_session that opens the cart of an unknown session
\* under the identifier the caller supplied.
get_or_create_session_reuse(session_id) ==
    IF session_id # None /\ session_id \in DOMAIN orders
    THEN [session_id |-> session_id, orders |-> orders, next_uuid |-> next_uuid]
    ELSE IF session_id # None
    THEN [session_id |-> session_id,
          orders |-> orders @@ (session_id :>
                       [items |-> <<>>, total |-> 0, created_at |-> next_uuid]),
          next_uuid |-> next_uuid + 1]
    ELSE [session_id |-> next_uuid,
          orders |-> orders @@ (next_uuid :>
                       [items |-> <<>>, total |-> 0, created_at |-> next_uuid]),
          next_uuid |-> next_uuid + 1]

\* The result of get_or_create_session: the id it returns and the store and
\* the uuid4 count it leaves.  created_at is the ordinal of the creation.
get_or_create_session(session_id) ==
    IF session_id # None /\ session_id \in DOMAIN orders
    THEN [session_id |-> session_id, orders |-> orders, next_uuid |-> next_uuid]
    ELSE [session_id |-> next_uuid,
          orders |-> orders @@ (next_uuid :>
                       [items |-> <<>>, total |-> 0, created_at |-> next_uuid]),
          next_uuid |-> next_uuid + 1]

---------------------------------------------------------------------------
(* Text. *)

\* str.lower() on one character, for the letters the model uses.
lower_char(c) ==
    CASE c = "A" -> "a"
      [] c = "B" -> "b"
      [] c = "O" -> "o"
      [] c = "P" -> "p"
      [] OTHER -> c

\* str.lower()
lower(str) == [k \in 1..Len(str) |-> lower_char(str[k])]

\* str.strip(): without its leading and trailing blanks.
RECURSIVE strip(_)
strip(str) ==
    IF str = <<>> THEN str
    ELSE IF str[1] = " " THEN strip(Tail(str))
    ELSE IF str[Len(str)] = " " THEN strip(SubSeq(str, 1, Len(str) - 1))
    ELSE str

\* Python's `needle in hay` on strings.
In(needle, hay) ==
    \E i \in 0..(Len(hay) - Len(needle)) :
        SubSeq(hay, i + 1, i + Len(needle)) = needle

---------------------------------------------------------------------------
(* difflib.SequenceMatcher(None, a, b).ratio().  No element is junk: isjunk *)
(* is None, and the automatic junk heuristic needs len(b) >= 200.  Indices *)
(* are difflib's: 0-based, lo inclusive, hi exclusive.                     *)

\* The largest k with a[i:i+k] == b[j:j+k] within a[:ahi] and b[:bhi].
RECURSIVE BlockLen(_, _, _, _, _, _)
BlockLen(a, b, i, j, ahi, bhi) ==
    IF i < ahi /\ j < bhi /\ a[i + 1] = b[j + 1]
    THEN 1 + BlockLen(a, b, i + 1, j + 1, ahi, bhi)
    ELSE 0

\* find_longest_match's scan of a[alo:ahi] against b[blo:bhi], positions of a
\* in ascending order and, for each, positions of b in ascending order; a block
\* replaces the best one so far only when it is longer (k > bestsize).  n
\* counts the pairs of positions passed.
RECURSIVE Scan(_, _, _, _, _, _, _, _)
Scan(a, b, alo, ahi, blo, bhi, n, best) ==
    IF n = (ahi - alo) * (bhi - blo) THEN best
    ELSE LET i == alo + (n \div (bhi - blo))
             j == blo + (n % (bhi - blo))
             k == BlockLen(a, b, i, j, ahi, bhi)
         IN  Scan(a, b, alo, ahi, blo, bhi, n + 1,
                  IF k > best[3] THEN <<i, j, k>> ELSE best)

\* find_longest_match: the longest block a[i:i+k] == b[j:j+k] within
\* a[alo:ahi] and b[blo:bhi]; of the longest, the one starting earliest in a;
\* of those, the one starting earliest in b; (alo, blo, 0) when there is none.
find_longest_match(a, b, alo, ahi, blo, bhi) ==
    IF alo >= ahi \/ blo >= bhi THEN <<alo, blo, 0>>
    ELSE Scan(a, b, alo, ahi, blo, bhi, 0, <<alo, blo, 0>>)

\* The total size of get_matching_blocks: the longest match, then the same
\* to its left and to its right.
RECURSIVE matches(_, _, _, _, _, _)
matches(a, b, alo, ahi, blo, bhi) ==
    LET m == find_longest_match(a, b, alo, ahi, blo, bhi)
        i == m[1]
        j == m[2]
        k == m[3]
    IN  IF k = 0 THEN 0
        ELSE k + (IF alo < i /\ blo < j THEN matches(a, b, alo, i, blo, j) ELSE 0)
               + (IF i + k < ahi /\ j + k < bhi
                  THEN matches(a, b, i + k, ahi, j + k, bhi) ELSE 0)

\* ratio(): 2.0 * matches / (len(a) + len(b)), and 1.0 for two empty strings.
ratio(a, b) ==
    IF Len(a) + Len(b) = 0 THEN <<1, 1>>
    ELSE <<2 * matches(a, b, 0, Len(a), 0, Len(b)), Len(a) + Len(b)>>

---------------------------------------------------------------------------
(* The resolution engine. *)

\* x >= y and x = y on scores.
ScoreGE(x, y) == x[1] * y[2] >= y[1] * x[2]
ScoreEQ(x, y) == x[1] * y[2] = y[1] * x[2]

similarity_score(str1, str2) == ratio(lower(str1), lower(str2))

\* A variant of Match that tests the substring tier before the exact one.
Match_partial_first(query, threshold, item) ==
    LET query_lower == lower(query)
        item_name_lower == lower(item.name)
        result(type, score) == << [id |-> item.id, name |-> item.name,
                                   category |-> item.category,
                                   price |-> item.base_price,
                                   match_type |-> type, score |-> score] >>
    IN  IF In(query_lower, item_name_lower) \/ In(item_name_lower, query_lower)
        THEN result("partial", <<9, 10>>)
        ELSE IF query_lower = item_name_lower THEN result("exact", <<1, 1>>)
        ELSE LET score == similarity_score(query, item.name)
             IN  IF ScoreGE(score, threshold) THEN result("fuzzy", score)
                 ELSE <<>>

\* A variant of Match that keeps a fuzzy match only above the threshold.
Match_strict(query, threshold, item) ==
    LET query_lower == lower(query)
        item_name_lower == lower(item.name)
        result(type, score) == << [id |-> item.id, name |-> item.name,
                                   category |-> item.category,
                                   price |-> item.base_price,
                                   match_type |-> type, score |-> score] >>
    IN  IF query_lower = item_name_lower THEN result("exact", <<1, 1>>)
        ELSE IF In(query_lower, item_name_lower) \/ In(item_name_lower, query_lower)
        THEN result("partial", <<9, 10>>)
        ELSE LET score == similarity_score(query, item.name)
             IN  IF ScoreGE(score, threshold) /\ ~ScoreEQ(score, threshold)
                 THEN result("fuzzy", score)
                 ELSE <<>>

\* What one pass of the loop over the catalog appends to results for an item:
\* a one-element list, or nothing.
Match(query, threshold, item) ==
    LET query_lower == lower(query)
        item_name_lower == lower(item.name)
        result(type, score) == << [id |-> item.id, name |-> item.name,
                                   category |-> item.category,
                                   price |-> item.base_price,
                                   match_type |-> type, score |-> score] >>
    IN  IF query_lower = item_name_lower THEN result("exact", <<1, 1>>)
        ELSE IF In(query_lower, item_name_lower) \/ In(item_name_lower, query_lower)
        THEN result("partial", <<9, 10>>)
        ELSE LET score == similarity_score(query, item.name)
             IN  IF ScoreGE(score, threshold) THEN result("fuzzy", score)
                 ELSE <<>>

\* results after the loop has passed the first n items of the catalog.
RECURSIVE Collect(_, _, _)
Collect(query, threshold, n) ==
    IF n = 0 THEN <<>>
    ELSE Collect(query, threshold, n - 1) \o Match(query, threshold, menu_data[n])

\* A variant of SortByScore that is not stable: an element goes ahead of the
\* elements with its own score.
RECURSIVE SortByScore_unstable(_)
SortByScore_unstable(results) ==
    IF results = <<>> THEN <<>>
    ELSE LET n == Len(results)
             x == results[n]
             sorted == SortByScore_unstable(SubSeq(results, 1, n - 1))
             ahead == {k \in 1..(n - 1) :
                         ScoreGE(sorted[k].score, x.score)
                         /\ ~ScoreEQ(sorted[k].score, x.score)}
         IN  SubSeq(sorted, 1, Cardinality(ahead)) \o <<x>>
             \o SubSeq(sorted, Cardinality(ahead) + 1, n - 1)

\* results.sort(key=lambda x: x['score'], reverse=True): stable, so an
\* element goes behind every element whose score is at least its own.
RECURSIVE SortByScore(_)
SortByScore(results) ==
    IF results = <<>> THEN <<>>
    ELSE LET n == Len(results)
             x == results[n]
             sorted == SortByScore(SubSeq(results, 1, n - 1))
             ahead == {k \in 1..(n - 1) : ScoreGE(sorted[k].score, x.score)}
         IN  SubSeq(sorted, 1, Cardinality(ahead)) \o <<x>>
             \o SubSeq(sorted, Cardinality(ahead) + 1, n - 1)

\* A variant of search_items that returns the results unsorted.
search_items_unsorted(query, threshold) ==
    Collect(query, threshold, Len(menu_data))

search_items(query, threshold) ==
    SortByScore(Collect(query, threshold, Len(menu_data)))

\* A direct call of the pricing function.
call_calculate_item_price(item_id, modifier_ids) ==
    /\ request' = [op |-> "calculate_item_price", item_id |-> item_id,
                   modifier_ids |-> modifier_ids]
    /\ response' = calculate_item_price(item_id, modifier_ids)
    /\ UNCHANGED <<menu_data, orders, next_uuid>>

\* A direct call of the engine.
call_search_items(query, threshold) ==
    /\ request' = [op |-> "search_items", query |-> query, threshold |-> threshold]
    /\ response' = search_items(query, threshold)
    /\ UNCHANGED <<menu_data, orders, next_uuid>>

\* A variant of search_menu that reports a search without results as an error.
search_menu_not_found(data) ==
    LET query == strip(Get(data, "query", <<>>))
    IN  /\ request' = [op |-> "search_menu", data |-> data]
        /\ IF query = <<>>
           THEN response' = [status |-> 400, success |-> FALSE,
                             error |-> "Search query is required"]
           ELSE LET results == search_items(query, <<6, 10>>)
                IN  IF results = <<>>
                    THEN response' = [status |-> 404, success |-> FALSE,
                                      error |-> "No items found"]
                    ELSE response' = [status |-> 200, success |-> TRUE,
                                      found |-> TRUE, query |-> query,
                                      results |-> SubSeq(results, 1,
                                          IF Len(results) < 5 THEN Len(results) ELSE 5),
                                      total_matches |-> Len(results)]
        /\ UNCHANGED <<menu_data, orders, next_uuid>>

\* A variant of search_menu without the validation of the query.
search_menu_unvalidated(data) ==
    LET query == strip(Get(data, "query", <<>>))
        results == search_items(query, <<6, 10>>)
    IN  /\ request' = [op |-> "search_menu", data |-> data]
        /\ IF results = <<>>
           THEN response' = [status |-> 200, success |-> TRUE,
                             found |-> FALSE, query |-> query,
                             message |-> "No items found",
                             results |-> <<>>]
           ELSE response' = [status |-> 200, success |-> TRUE,
                             found |-> TRUE, query |-> query,
                             results |-> SubSeq(results, 1,
                                 IF Len(results) < 5 THEN Len(results) ELSE 5),
                             total_matches |-> Len(results)]
        /\ UNCHANGED <<menu_data, orders, next_uuid>>

\* A variant of search_menu that counts the matches after the truncation.
search_menu_truncated_count(data) ==
    LET query == strip(Get(data, "query", <<>>))
    IN  /\ request' = [op |-> "search_menu", data |-> data]
        /\ IF query = <<>>
           THEN response' = [status |-> 400, success |-> FALSE,
                             error |-> "Search query is required"]
           ELSE LET results == search_items(query, <<6, 10>>)
                    top == SubSeq(results, 1,
                               IF Len(results) < 5 THEN Len(results) ELSE 5)
                IN  IF results = <<>>
                    THEN response' = [status |-> 200, success |-> TRUE,
                                      found |-> FALSE, query |-> query,
                                      message |-> "No items found",
                                      results |-> <<>>]
                    ELSE response' = [status |-> 200, success |-> TRUE,
                                      found |-> TRUE, query |-> query,
                                      results |-> top,
                                      total_matches |-> Len(top)]
        /\ UNCHANGED <<menu_data, orders, next_uuid>>

\* POST /api/search_menu
search_menu(data) ==
    LET query == strip(Get(data, "query", <<>>))
    IN  /\ request' = [op |-> "search_menu", data |-> data]
        /\ IF query = <<>>
           THEN response' = [status |-> 400, success |-> FALSE,
                             error |-> "Search query is required"]
           ELSE LET results == search_items(query, <<6, 10>>)
                IN  IF results = <<>>
                    THEN response' = [status |-> 200, success |-> TRUE,
                                      found |-> FALSE, query |-> query,
                                      message |-> "No items found",
                                      results |-> <<>>]
                    ELSE response' = [status |-> 200, success |-> TRUE,
                                      found |-> TRUE, query |-> query,
                                      results |-> SubSeq(results, 1,
                                          IF Len(results) < 5 THEN Len(results) ELSE 5),
                                      total_matches |-> Len(results)]
        /\ UNCHANGED <<menu_data, orders, next_uuid>>

---------------------------------------------------------------------------
(* The ledger's request handlers.  Each is the whole handler: the early     *)
(* returns are the branches, in the order the code tests them.             *)

\* Lines held by all carts of a store (the quantity MaxLines bounds).
RECURSIVE StoreLines(_)
StoreLines(store) ==
    IF DOMAIN store = {} THEN 0
    ELSE LET s == CHOOSE x \in DOMAIN store : TRUE
         IN  Len(store[s].items)
             + StoreLines([t \in DOMAIN store \ {s} |-> store[t]])

\* A variant of add_to_order that resolves the session before it validates
\* the item.
add_to_order_session_first(data) ==
    LET session_id == data.session_id
        item_id == data.item_id
        modifier_ids == Get(data, "modifier_ids", <<>>)
        quantity == Get(data, "quantity", 1)
    IN  /\ request' = [op |-> "add_to_order", data |-> data]
        /\ IF item_id = NoItem
           THEN /\ response' = [status |-> 400, success |-> FALSE,
                                error |-> "Item ID is required"]
                /\ UNCHANGED <<menu_data, orders, next_uuid>>
           ELSE IF ~HasItem(item_id)
           THEN /\ response' = [status |-> 404, success |-> FALSE,
                                error |-> "Item not found", item_id |-> item_id]
                /\ orders' = get_or_create_session(session_id).orders
                /\ next_uuid' = get_or_create_session(session_id).next_uuid
                /\ UNCHANGED menu_data
           ELSE LET item == Item(item_id)
                    s == get_or_create_session(session_id)
                    item_price == calculate_item_price(item_id, modifier_ids)
                    subtotal == item_price * quantity
                    order_item == [item_id |-> item_id,
                                   item_name |-> item.name,
                                   base_price |-> item.base_price,
                                   modifier_ids |-> modifier_ids,
                                   quantity |-> quantity,
                                   item_total |-> item_price,
                                   subtotal |-> subtotal]
                    cart == s.orders[s.session_id]
                    total == Round2(cart.total + subtotal)
                IN  /\ s.next_uuid <= MaxSessions + 1
                    /\ StoreLines(orders) < MaxLines
                    /\ orders' = [s.orders EXCEPT ![s.session_id] =
                                    [cart EXCEPT !.items = Append(cart.items, order_item),
                                                 !.total = total]]
                    /\ next_uuid' = s.next_uuid
                    /\ response' = [status |-> 200, success |-> TRUE,
                                    session_id |-> s.session_id,
                                    order_item |-> order_item,
                                    order_total |-> total]
                    /\ UNCHANGED menu_data

\* A variant of add_to_order that refuses a quantity below one.
add_to_order_positive_quantity(data) ==
    LET session_id == data.session_id
        item_id == data.item_id
        modifier_ids == Get(data, "modifier_ids", <<>>)
        quantity == Get(data, "quantity", 1)
    IN  /\ request' = [op |-> "add_to_order", data |-> data]
        /\ IF item_id = NoItem
           THEN /\ response' = [status |-> 400, success |-> FALSE,
                                error |-> "Item ID is required"]
                /\ UNCHANGED <<menu_data, orders, next_uuid>>
           ELSE IF ~HasItem(item_id)
           THEN /\ response' = [status |-> 404, success |-> FALSE,
                                error |-> "Item not found", item_id |-> item_id]
                /\ UNCHANGED <<menu_data, orders, next_uuid>>
           ELSE IF quantity < 1
           THEN /\ response' = [status |-> 400, success |-> FALSE,
                                error |-> "Quantity must be positive"]
                /\ UNCHANGED <<menu_data, orders, next_uuid>>
           ELSE LET item == Item(item_id)
                    s == get_or_create_session(session_id)
                    item_price == calculate_item_price(item_id, modifier_ids)
                    subtotal == item_price * quantity
                    order_item == [item_id |-> item_id,
                                   item_name |-> item.name,
                                   base_price |-> item.base_price,
                                   modifier_ids |-> modifier_ids,
                                   quantity |-> quantity,
                                   item_total |-> item_price,
                                   subtotal |-> subtotal]
                    cart == s.orders[s.session_id]
                    total == Round2(cart.total + subtotal)
                IN  /\ s.next_uuid <= MaxSessions + 1
                    /\ StoreLines(orders) < MaxLines
                    /\ orders' = [s.orders EXCEPT ![s.session_id] =
                                    [cart EXCEPT !.items = Append(cart.items, order_item),
                                                 !.total = total]]
                    /\ next_uuid' = s.next_uuid
                    /\ response' = [status |-> 200, success |-> TRUE,
                                    session_id |-> s.session_id,
                                    order_item |-> order_item,
                                    order_total |-> total]
                    /\ UNCHANGED menu_data

\* POST /api/add_to_order
add_to_order(data) ==
    LET session_id == data.session_id
        item_id == data.item_id
        modifier_ids == Get(data, "modifier_ids", <<>>)
        quantity == Get(data, "quantity", 1)
    IN  /\ request' = [op |-> "add_to_order", data |-> data]
        /\ IF item_id = NoItem
           THEN /\ response' = [status |-> 400, success |-> FALSE,
                                error |-> "Item ID is required"]
                /\ UNCHANGED <<menu_data, orders, next_uuid>>
           ELSE IF ~HasItem(item_id)
           THEN /\ response' = [status |-> 404, success |-> FALSE,
                                error |-> "Item not found", item_id |-> item_id]
                /\ UNCHANGED <<menu_data, orders, next_uuid>>
           ELSE LET item == Item(item_id)
                    s == get_or_create_session(session_id)
                    item_price == calculate_item_price(item_id, modifier_ids)
                    subtotal == item_price * quantity
                    order_item == [item_id |-> item_id,
                                   item_name |-> item.name,
                                   base_price |-> item.base_price,
                                   modifier_ids |-> modifier_ids,
                                   quantity |-> quantity,
                                   item_total |-> item_price,
                                   subtotal |-> subtotal]
                    cart == s.orders[s.session_id]
                    total == Round2(cart.total + subtotal)
                IN  /\ s.next_uuid <= MaxSessions + 1
                    /\ StoreLines(orders) < MaxLines
                    /\ orders' = [s.orders EXCEPT ![s.session_id] =
                                    [cart EXCEPT !.items = Append(cart.items, order_item),
                                                 !.total = total]]
                    /\ next_uuid' = s.next_uuid
                    /\ response' = [status |-> 200, success |-> TRUE,
                                    session_id |-> s.session_id,
                                    order_item |-> order_item,
                                    order_total |-> total]
                    /\ UNCHANGED menu_data

\* A variant of get_order_summary that refuses a session it does not know, as
\* remove_from_order does.
get_order_summary_invalid_session(data) ==
    LET session_id == data.session_id
    IN  /\ request' = [op |-> "get_order_summary", data |-> data]
        /\ IF session_id = None \/ session_id \notin DOMAIN orders
           THEN response' = [status |-> 400, success |-> FALSE,
                             error |-> "Invalid session"]
           ELSE LET order == orders[session_id]
                IN  response' = [status |-> 200, success |-> TRUE,
                                 session_id |-> session_id,
                                 order |-> [items |-> order.items,
                                            total |-> order.total,
                                            item_count |-> Len(order.items),
                                            created_at |-> order.created_at]]
        /\ UNCHANGED <<menu_data, orders, next_uuid>>

\* A variant of get_order_summary that resolves the session as add_to_order
\* does, creating one for an id it does not know.
get_order_summary_creating(data) ==
    LET s == get_or_create_session(data.session_id)
        order == s.orders[s.session_id]
    IN  /\ request' = [op |-> "get_order_summary", data |-> data]
        /\ s.next_uuid <= MaxSessions + 1
        /\ orders' = s.orders
        /\ next_uuid' = s.next_uuid
        /\ response' = [status |-> 200, success |-> TRUE,
                        session_id |-> s.session_id,
                        order |-> [items |-> order.items,
                                   total |-> order.total,
                                   item_count |-> Len(order.items),
                                   created_at |-> order.created_at]]
        /\ UNCHANGED menu_data

\* POST /api/get_order_summary
get_order_summary(data) ==
    LET session_id == data.session_id
    IN  /\ request' = [op |-> "get_order_summary", data |-> data]
        /\ IF session_id = None \/ session_id \notin DOMAIN orders
           THEN response' = [status |-> 200, success |-> TRUE,
                             order |-> [items |-> <<>>, total |-> 0,
                                        item_count |-> 0]]
           ELSE LET order == orders[session_id]
                IN  response' = [status |-> 200, success |-> TRUE,
                                 session_id |-> session_id,
                                 order |-> [items |-> order.items,
                                            total |-> order.total,
                                            item_count |-> Len(order.items),
                                            created_at |-> order.created_at]]
        /\ UNCHANGED <<menu_data, orders, next_uuid>>

\* A variant of clear_order that empties the cart and keeps the session.
clear_order_keep_session(data) ==
    LET session_id == data.session_id
    IN  /\ request' = [op |-> "clear_order", data |-> data]
        /\ IF session_id # None /\ session_id \in DOMAIN orders
           THEN orders' = [orders EXCEPT ![session_id] =
                             [items |-> <<>>, total |-> 0,
                              created_at |-> @.created_at]]
           ELSE orders' = orders
        /\ response' = [status |-> 200, success |-> TRUE,
                        message |-> "Order cleared"]
        /\ UNCHANGED <<menu_data, next_uuid>>

\* A variant of clear_order that empties the whole store when it knows the
\* session.
clear_order_all(data) ==
    LET session_id == data.session_id
    IN  /\ request' = [op |-> "clear_order", data |-> data]
        /\ IF session_id # None /\ session_id \in DOMAIN orders
           THEN orders' = <<>>
           ELSE orders' = orders
        /\ response' = [status |-> 200, success |-> TRUE,
                        message |-> "Order cleared"]
        /\ UNCHANGED <<menu_data, next_uuid>>

\* POST /api/clear_order
clear_order(data) ==
    LET session_id == data.session_id
    IN  /\ request' = [op |-> "clear_order", data |-> data]
        /\ IF session_id # None /\ session_id \in DOMAIN orders
           THEN orders' = [s \in DOMAIN orders \ {session_id} |-> orders[s]]
           ELSE orders' = orders
        /\ response' = [status |-> 200, success |-> TRUE,
                        message |-> "Order cleared"]
        /\ UNCHANGED <<menu_data, next_uuid>>

\* A variant of remove_from_order that validates the index before the session.
remove_from_order_index_first(data) ==
    LET session_id == data.session_id
    IN  /\ request' = [op |-> "remove_from_order", data |-> data]
        /\ IF "item_index" \notin DOMAIN data \/ data.item_index < 0
           THEN /\ response' = [status |-> 400, success |-> FALSE,
                                error |-> "Valid item index is required"]
                /\ UNCHANGED <<menu_data, orders, next_uuid>>
           ELSE IF session_id = None \/ session_id \notin DOMAIN orders
           THEN /\ response' = [status |-> 400, success |-> FALSE,
                                error |-> "Invalid session"]
                /\ UNCHANGED <<menu_data, orders, next_uuid>>
           ELSE LET order == orders[session_id]
                    item_index == data.item_index
                IN  IF item_index >= Len(order.items)
                    THEN /\ response' = [status |-> 400, success |-> FALSE,
                                         error |-> "Item index out of range"]
                         /\ UNCHANGED <<menu_data, orders, next_uuid>>
                    ELSE LET removed_item == order.items[item_index + 1]
                             total == Round2(order.total - removed_item.subtotal)
                         IN  /\ orders' = [orders EXCEPT ![session_id] =
                                   [order EXCEPT !.items = Pop(order.items, item_index + 1),
                                                 !.total = total]]
                             /\ response' = [status |-> 200, success |-> TRUE,
                                             removed_item |-> removed_item,
                                             order_total |-> total]
                             /\ UNCHANGED <<menu_data, next_uuid>>

\* A variant of remove_from_order that removes the lines by value: every line
\* equal to the one at the index goes.
remove_from_order_by_value(data) ==
    LET session_id == data.session_id
    IN  /\ request' = [op |-> "remove_from_order", data |-> data]
        /\ IF session_id = None \/ session_id \notin DOMAIN orders
           THEN /\ response' = [status |-> 400, success |-> FALSE,
                                error |-> "Invalid session"]
                /\ UNCHANGED <<menu_data, orders, next_uuid>>
           ELSE IF "item_index" \notin DOMAIN data \/ data.item_index < 0
           THEN /\ response' = [status |-> 400, success |-> FALSE,
                                error |-> "Valid item index is required"]
                /\ UNCHANGED <<menu_data, orders, next_uuid>>
           ELSE LET order == orders[session_id]
                    item_index == data.item_index
                IN  IF item_index >= Len(order.items)
                    THEN /\ response' = [status |-> 400, success |-> FALSE,
                                         error |-> "Item index out of range"]
                         /\ UNCHANGED <<menu_data, orders, next_uuid>>
                    ELSE LET removed_item == order.items[item_index + 1]
                             other(line) == line # removed_item
                             items == SelectSeq(order.items, other)
                             total == Round2(Sum([k \in 1..Len(items) |->
                                                    items[k].subtotal]))
                         IN  /\ orders' = [orders EXCEPT ![session_id] =
                                   [order EXCEPT !.items = items,
                                                 !.total = total]]
                             /\ response' = [status |-> 200, success |-> TRUE,
                                             removed_item |-> removed_item,
                                             order_total |-> total]
                             /\ UNCHANGED <<menu_data, next_uuid>>

\* A variant of remove_from_order that drops the session with its last line.
remove_from_order_drop_empty(data) ==
    LET session_id == data.session_id
    IN  /\ request' = [op |-> "remove_from_order", data |-> data]
        /\ IF session_id = None \/ session_id \notin DOMAIN orders
           THEN /\ response' = [status |-> 400, success |-> FALSE,
                                error |-> "Invalid session"]
                /\ UNCHANGED <<menu_data, orders, next_uuid>>
           ELSE IF "item_index" \notin DOMAIN data \/ data.item_index < 0
           THEN /\ response' = [status |-> 400, success |-> FALSE,
                                error |-> "Valid item index is required"]
                /\ UNCHANGED <<menu_data, orders, next_uuid>>
           ELSE LET order == orders[session_id]
                    item_index == data.item_index
                IN  IF item_index >= Len(order.items)
                    THEN /\ response' = [status |-> 400, success |-> FALSE,
                                         error |-> "Item index out of range"]
                         /\ UNCHANGED <<menu_data, orders, next_uuid>>
                    ELSE LET removed_item == order.items[item_index + 1]
                             total == Round2(order.total - removed_item.subtotal)
                         IN  /\ orders' =
                                   IF Len(order.items) = 1
                                   THEN [s \in DOMAIN orders \ {session_id} |-> orders[s]]
                                   ELSE [orders EXCEPT ![session_id] =
                                          [order EXCEPT !.items = Pop(order.items, item_index + 1),
                                                        !.total = total]]
                             /\ response' = [status |-> 200, success |-> TRUE,
                                             removed_item |-> removed_item,
                                             order_total |-> total]
                             /\ UNCHANGED <<menu_data, next_uuid>>

\* POST /api/remove_from_order.  item_index is None when the body has no
\* such key; the code's indices are 0-based, a sequence's 1-based.
remove_from_order(data) ==
    LET session_id == data.session_id
    IN  /\ request' = [op |-> "remove_from_order", data |-> data]
        /\ IF session_id = None \/ session_id \notin DOMAIN orders
           THEN /\ response' = [status |-> 400, success |-> FALSE,
                                error |-> "Invalid session"]
                /\ UNCHANGED <<menu_data, orders, next_uuid>>
           ELSE IF "item_index" \notin DOMAIN data \/ data.item_index < 0
           THEN /\ response' = [status |-> 400, success |-> FALSE,
                                error |-> "Valid item index is required"]
                /\ UNCHANGED <<menu_data, orders, next_uuid>>
           ELSE LET order == orders[session_id]
                    item_index == data.item_index
                IN  IF item_index >= Len(order.items)
                    THEN /\ response' = [status |-> 400, success |-> FALSE,
                                         error |-> "Item index out of range"]
                         /\ UNCHANGED <<menu_data, orders, next_uuid>>
                    ELSE LET removed_item == order.items[item_index + 1]
                             total == Round2(order.total - removed_item.subtotal)
                         IN  /\ orders' = [orders EXCEPT ![session_id] =
                                   [order EXCEPT !.items = Pop(order.items, item_index + 1),
                                                 !.total = total]]
                             /\ response' = [status |-> 200, success |-> TRUE,
                                             removed_item |-> removed_item,
                                             order_total |-> total]
                             /\ UNCHANGED <<menu_data, next_uuid>>

---------------------------------------------------------------------------
(* The requests a caller sends. *)

\* Session ids a caller can send: none, one it made up, or one the ledger
\* returned earlier, still in the store or cleared since (uuid4 values cannot
\* be guessed before they are minted).
SessionInputs == {None, Foreign} \cup 1..(next_uuid - 1)

\* Bodies of add_to_order, less the session id.
AddInputs ==
    { [item_id |-> "P1"],
      [item_id |-> "P1", modifier_ids |-> <<>>, quantity |-> 2],
      [item_id |-> "O1", modifier_ids |-> <<"m2", "m9">>, quantity |-> -1],
      [item_id |-> "O1", modifier_ids |-> <<"m1">>, quantity |-> 0],
      [item_id |-> "X9", modifier_ids |-> <<>>, quantity |-> 1],
      [item_id |-> NoItem] }

\* Bodies of remove_from_order, less the session id.
RemoveInputs ==
    { <<>> } \cup { [item_index |-> i] : i \in -1..MaxLines }

WithSession(body, s) == body @@ [session_id |-> s]

Init ==
    /\ menu_data = LedgerMenu
    /\ orders = <<>>
    /\ next_uuid = 1
    /\ request = [op |-> "none"]
    /\ response = [status |-> 0]
    /\ threads = <<>>
    /\ detached = <<>>

\* One request at a time, each handler run from its first line to its return.
Next ==
    \/ \E s \in SessionInputs, b \in AddInputs :
          add_to_order(WithSession(b, s)) /\ UNCHANGED <<threads, detached>>
    \/ \E s \in SessionInputs, b \in RemoveInputs :
          remove_from_order(WithSession(b, s)) /\ UNCHANGED <<threads, detached>>
    \/ \E s \in SessionInputs :
          clear_order([session_id |-> s]) /\ UNCHANGED <<threads, detached>>
    \/ \E s \in SessionInputs :
          get_order_summary([session_id |-> s]) /\ UNCHANGED <<threads, detached>>

Spec == Init /\ [][Next]_vars

---------------------------------------------------------------------------
(* The engine's inputs: every catalog of up to MaxItems items named from    *)
(* NamePool and one catalog of seven items, every query of up to            *)
(* MaxQueryLen characters of QueryChars.                                    *)

\* A lower-case letter, an upper-case letter and the blank.
QueryChars == {"a", "B", " "}

\* Names with a case variant ("ab", "Ab"), names containing another name,
\* and names close to each other without containing each other.
NamePool ==
    { <<"a", "b">>, <<"A", "b">>, <<"a", "b", "b", "a">>,
      <<"a", "a", "b">>, <<"b", " ", "a">> }

SearchIds == <<"I1", "I2", "I3", "I4">>

SearchMenus ==
    UNION { { [k \in 1..n |-> [id |-> SearchIds[k], name |-> names[k],
                              category |-> "Breakfast", base_price |-> 8000,
                              modifiers |-> [required |-> <<>>, optional |-> <<>>]]]
              : names \in [1..n -> NamePool] }
            : n \in 0..MaxItems }

\* A catalog in which a query matches more items than search_menu returns:
\* "ab" matches six of the seven (three exact, three partial), "a" all seven.
BigMenuNames ==
    << <<"a", "b">>, <<"a", "b", "b", "a">>, <<"A", "b">>, <<"a", "a", "b">>,
       <<"b", " ", "a">>, <<"a", "B">>, <<"b", "a", "b">> >>

BigMenuIds == <<"B1", "B2", "B3", "B4", "B5", "B6", "B7">>

BigMenu ==
    [k \in 1..Len(BigMenuNames) |->
        [id |-> BigMenuIds[k], name |-> BigMenuNames[k],
         category |-> "Breakfast", base_price |-> 8000,
         modifiers |-> [required |-> <<>>, optional |-> <<>>]]]

Text == UNION { [1..n -> QueryChars] : n \in 0..MaxQueryLen }

\* The queries the engine's contract admits: trimmed and not empty.
Queries == {q \in Text : q # <<>> /\ strip(q) = q}

\* 0.6 (the default), 0.8 (a ratio some query reaches exactly) and 1.1.
Thresholds == { <<6, 10>>, <<4, 5>>, <<11, 10>> }

SearchInit ==
    /\ menu_data \in SearchMenus \cup {BigMenu}
    /\ orders = <<>>
    /\ next_uuid = 1
    /\ request = [op |-> "none"]
    /\ response = [status |-> 0]
    /\ threads = <<>>
    /\ detached = <<>>

\* The engine keeps nothing between calls and the search handler writes no
\* global (src/app.py:65-108, 186-216): a run is one call on one catalog.
SearchNext ==
    /\ request.op = "none"
    /\ UNCHANGED <<threads, detached>>
    /\ \/ \E q \in Queries, t \in Thresholds : call_search_items(q, t)
       \/ \E q \in Text : search_menu([query |-> q])
       \/ search_menu(<<>>)

SearchSpec == SearchInit /\ [][SearchNext]_vars

---------------------------------------------------------------------------
(* The pricing function's inputs: the ledger's catalog with each of a few   *)
(* base prices for O1, every item id of ItemIds, every list of up to        *)
(* MaxModifiers modifier ids of ModifierIds.                                *)

\* Base prices of two fractional digits, as the catalog's are: with the
\* option of 0.125, 5.50 makes a tie that rounds down to the even cent and
\* 5.75 one that rounds up; 0 is a free item.
BasePrices == {5500, 5750, 0}

PriceMenus ==
    { [LedgerMenu EXCEPT ![2].base_price = b] : b \in BasePrices }

\* The catalog's items and one it does not hold.
ItemIds == {"P1", "O1", "X9"}

\* O1's option ids and one no group holds.
ModifierIds == {"m1", "m2", "m3", "m9"}

ModifierLists == UNION { [1..n -> ModifierIds] : n \in 0..MaxModifiers }

PriceInit ==
    /\ menu_data \in PriceMenus
    /\ orders = <<>>
    /\ next_uuid = 1
    /\ request = [op |-> "none"]
    /\ response = [status |-> 0]
    /\ threads = <<>>
    /\ detached = <<>>

PriceNext ==
    /\ \E item_id \in ItemIds, modifier_ids \in ModifierLists :
          call_calculate_item_price(item_id, modifier_ids)
    /\ UNCHANGED <<threads, detached>>

PriceSpec == PriceInit /\ [][PriceNext]_vars

---------------------------------------------------------------------------
(* The ledger's handlers run by concurrent threads.  app.run (src/app.py:   *)
(* 403) serves each request on a thread of its own and no handler takes a   *)
(* lock, so a thread can be suspended between any two accesses to the       *)
(* shared orders dict.  A step below is a stretch of a handler from one     *)
(* such access to the next: the interpreter runs list.append, list.pop and  *)
(* a dict lookup, store or del without a switch in between.  A KeyError or  *)
(* an IndexError raised in a handler is answered by internal_error.         *)

Threads == 1..MaxThreads

\* A thread between two requests, having served n of them, answered the last
\* one with response, and completed the additions and removals of the logs.
IdleThread(n, resp, added, removed) ==
    [pc |-> "idle", served |-> n, response |-> resp,
     added |-> added, removed |-> removed,
     data |-> <<>>, session_id |-> None, line |-> <<>>, total |-> 0]

\* The thread t after its handler returned resp.
Return(t, resp) ==
    IdleThread(threads[t].served + 1, resp, threads[t].added, threads[t].removed)

\* @app.errorhandler(500)
internal_error ==
    [status |-> 500, success |-> FALSE, error |-> "Internal server error"]

\* The cart object a session id stands for: the one in the store, or the one
\* deleted from it that a handler still holds in its local `order`.
Cart(session_id) ==
    IF session_id \in DOMAIN orders THEN orders[session_id]
    ELSE detached[session_id]

\* A write to that cart object.
SetCart(session_id, cart) ==
    IF session_id \in DOMAIN orders
    THEN /\ orders' = [orders EXCEPT ![session_id] = cart]
         /\ detached' = detached
    ELSE /\ detached' = [detached EXCEPT ![session_id] = cart]
         /\ orders' = orders

\* add_to_order, lines 246-282: validation, get_or_create_session, the price
\* and the order item.
add_to_order_begin(t, data) ==
    LET session_id == data.session_id
        item_id == data.item_id
        modifier_ids == Get(data, "modifier_ids", <<>>)
        quantity == Get(data, "quantity", 1)
    IN  /\ threads[t].pc = "idle"
        /\ threads[t].served < MaxRequests
        /\ IF item_id = NoItem
           THEN /\ threads' = [threads EXCEPT ![t] =
                      Return(t, [status |-> 400, success |-> FALSE,
                                 error |-> "Item ID is required"])]
                /\ UNCHANGED <<orders, next_uuid>>
           ELSE IF ~HasItem(item_id)
           THEN /\ threads' = [threads EXCEPT ![t] =
                      Return(t, [status |-> 404, success |-> FALSE,
                                 error |-> "Item not found", item_id |-> item_id])]
                /\ UNCHANGED <<orders, next_uuid>>
           ELSE LET item == Item(item_id)
                    s == get_or_create_session(session_id)
                    item_price == calculate_item_price(item_id, modifier_ids)
                    subtotal == item_price * quantity
                    order_item == [item_id |-> item_id,
                                   item_name |-> item.name,
                                   base_price |-> item.base_price,
                                   modifier_ids |-> modifier_ids,
                                   quantity |-> quantity,
                                   item_total |-> item_price,
                                   subtotal |-> subtotal]
                IN  /\ orders' = s.orders
                    /\ next_uuid' = s.next_uuid
                    /\ threads' = [threads EXCEPT ![t] =
                          [@ EXCEPT !.pc = "add_append", !.data = data,
                                    !.session_id = s.session_id,
                                    !.line = order_item]]
        /\ UNCHANGED <<menu_data, request, response, detached>>

\* line 285: orders[session_id]['items'].append(order_item)
add_to_order_append(t) ==
    LET session_id == threads[t].session_id
    IN  /\ threads[t].pc = "add_append"
        /\ IF session_id \notin DOMAIN orders
           THEN /\ threads' = [threads EXCEPT ![t] = Return(t, internal_error)]
                /\ orders' = orders
           ELSE /\ orders' = [orders EXCEPT ![session_id].items =
                                 Append(@, threads[t].line)]
                /\ threads' = [threads EXCEPT ![t].pc = "add_read_total"]
        /\ UNCHANGED <<menu_data, next_uuid, request, response, detached>>

\* line 287: the read of orders[session_id]['total']
add_to_order_read_total(t) ==
    LET session_id == threads[t].session_id
    IN  /\ threads[t].pc = "add_read_total"
        /\ IF session_id \notin DOMAIN orders
           THEN threads' = [threads EXCEPT ![t] = Return(t, internal_error)]
           ELSE threads' = [threads EXCEPT ![t] =
                  [@ EXCEPT !.pc = "add_write_total",
                            !.total = orders[session_id].total]]
        /\ UNCHANGED <<menu_data, orders, next_uuid, request, response, detached>>

\* lines 286-295: the store of orders[session_id]['total'] and the response.
add_to_order_write_total(t) ==
    LET session_id == threads[t].session_id
        total == Round2(threads[t].total + threads[t].line.subtotal)
    IN  /\ threads[t].pc = "add_write_total"
        /\ IF session_id \notin DOMAIN orders
           THEN /\ threads' = [threads EXCEPT ![t] = Return(t, internal_error)]
                /\ orders' = orders
           ELSE /\ orders' = [orders EXCEPT ![session_id].total = total]
                /\ threads' = [threads EXCEPT ![t] =
                      [Return(t, [status |-> 200, success |-> TRUE,
                                  session_id |-> session_id,
                                  order_item |-> threads[t].line,
                                  order_total |-> total])
                         EXCEPT !.added = Append(@, session_id)]]
        /\ UNCHANGED <<menu_data, next_uuid, request, response, detached>>

\* The positions of remove_from_order at which its local `order` refers to a
\* cart.
RemovePcs == {"remove_pop", "remove_read_total", "remove_write_total"}

\* A thread other than t holds a reference to the cart of the session.
Held(session_id, t) ==
    \E u \in Threads \ {t} :
        threads[u].pc \in RemovePcs /\ threads[u].session_id = session_id

\* The deleted carts once t has dropped its reference to the session's cart.
Release(d, session_id, t) ==
    IF session_id \in DOMAIN d /\ ~Held(session_id, t)
    THEN [x \in DOMAIN d \ {session_id} |-> d[x]]
    ELSE d

\* remove_from_order, lines 343-365: the three validations, and
\* order = orders[session_id].
remove_from_order_begin(t, data) ==
    LET session_id == data.session_id
        failed(error) ==
            /\ threads' = [threads EXCEPT ![t] =
                  Return(t, [status |-> 400, success |-> FALSE, error |-> error])]
    IN  /\ threads[t].pc = "idle"
        /\ threads[t].served < MaxRequests
        /\ IF session_id = None \/ session_id \notin DOMAIN orders
           THEN failed("Invalid session")
           ELSE IF "item_index" \notin DOMAIN data \/ data.item_index < 0
           THEN failed("Valid item index is required")
           ELSE IF data.item_index >= Len(orders[session_id].items)
           THEN failed("Item index out of range")
           ELSE threads' = [threads EXCEPT ![t] =
                  [@ EXCEPT !.pc = "remove_pop", !.data = data,
                            !.session_id = session_id]]
        /\ UNCHANGED <<menu_data, orders, next_uuid, request, response, detached>>

\* line 368: removed_item = order['items'].pop(item_index)
remove_from_order_pop(t) ==
    LET session_id == threads[t].session_id
        order == Cart(session_id)
        item_index == threads[t].data.item_index
    IN  /\ threads[t].pc = "remove_pop"
        /\ IF item_index >= Len(order.items)
           THEN /\ threads' = [threads EXCEPT ![t] = Return(t, internal_error)]
                /\ orders' = orders
                /\ detached' = Release(detached, session_id, t)
           ELSE /\ SetCart(session_id,
                           [order EXCEPT !.items = Pop(@, item_index + 1)])
                /\ threads' = [threads EXCEPT ![t] =
                      [@ EXCEPT !.pc = "remove_read_total",
                                !.line = order.items[item_index + 1]]]
        /\ UNCHANGED <<menu_data, next_uuid, request, response>>

\* line 369: the read of order['total']
remove_from_order_read_total(t) ==
    /\ threads[t].pc = "remove_read_total"
    /\ threads' = [threads EXCEPT ![t] =
          [@ EXCEPT !.pc = "remove_write_total",
                    !.total = Cart(threads[t].session_id).total]]
    /\ UNCHANGED <<menu_data, orders, next_uuid, request, response, detached>>

\* lines 369-375: the store of order['total'] and the response.
remove_from_order_write_total(t) ==
    LET session_id == threads[t].session_id
        order == Cart(session_id)
        total == Round2(threads[t].total - threads[t].line.subtotal)
    IN  /\ threads[t].pc = "remove_write_total"
        /\ IF session_id \in DOMAIN orders
           THEN /\ orders' = [orders EXCEPT ![session_id].total = total]
                /\ detached' = detached
           ELSE /\ orders' = orders
                /\ detached' = Release([detached EXCEPT ![session_id].total = total],
                                       session_id, t)
        /\ threads' = [threads EXCEPT ![t] =
              [Return(t, [status |-> 200, success |-> TRUE,
                          removed_item |-> threads[t].line,
                          order_total |-> total])
                 EXCEPT !.removed = Append(@, session_id)]]
        /\ UNCHANGED <<menu_data, next_uuid, request, response>>

\* clear_order, lines 329-338.  The cart of a deleted session lives on while a
\* remove_from_order holds it.
clear_order_run(t, data) ==
    LET session_id == data.session_id
    IN  /\ threads[t].pc = "idle"
        /\ threads[t].served < MaxRequests
        /\ IF session_id # None /\ session_id \in DOMAIN orders
           THEN /\ orders' = [s \in DOMAIN orders \ {session_id} |-> orders[s]]
                /\ detached' = IF Held(session_id, t)
                               THEN detached @@ (session_id :> orders[session_id])
                               ELSE detached
           ELSE UNCHANGED <<orders, detached>>
        /\ threads' = [threads EXCEPT ![t] =
              Return(t, [status |-> 200, success |-> TRUE,
                         message |-> "Order cleared"])]
        /\ UNCHANGED <<menu_data, next_uuid, request, response>>

\* The requests sent to the concurrent server: an addition of the spec's
\* example item, the removal of the first line, a clear; without a session id
\* or with one that a response of add_to_order has carried (a caller learns a
\* session id from nowhere else).
ConcSessionInputs ==
    {None} \cup UNION { {threads[t].added[k] : k \in 1..Len(threads[t].added)}
                        : t \in Threads }

ConcInit ==
    /\ menu_data = LedgerMenu
    /\ orders = <<>>
    /\ next_uuid = 1
    /\ request = [op |-> "none"]
    /\ response = [status |-> 0]
    /\ threads = [t \in Threads |-> IdleThread(0, [status |-> 0], <<>>, <<>>)]
    /\ detached = <<>>

ConcNext ==
    \E t \in Threads :
        \/ \E s \in ConcSessionInputs :
              add_to_order_begin(t, [item_id |-> "P1", session_id |-> s])
        \/ add_to_order_append(t)
        \/ add_to_order_read_total(t)
        \/ add_to_order_write_total(t)
        \/ \E s \in ConcSessionInputs :
              remove_from_order_begin(t, [item_index |-> 0, session_id |-> s])
        \/ remove_from_order_pop(t)
        \/ remove_from_order_read_total(t)
        \/ remove_from_order_write_total(t)
        \/ \E s \in ConcSessionInputs : clear_order_run(t, [session_id |-> s])

ConcSpec == ConcInit /\ [][ConcNext]_vars

---------------------------------------------------------------------------
(* Properties of the order ledger, checked under Spec. *)

\* The subtotals of a cart's lines, in order.
Subtotals(cart) == [k \in 1..Len(cart.items) |-> cart.items[k].subtotal]

\* C1: in every state, every cart of the session store has a total equal to
\* the sum of the subtotals of its current lines, rounded to 2 digits.
C1_RunningTotal ==
    \A s \in DOMAIN orders : orders[s].total = Round2(Sum(Subtotals(orders[s])))

\* A line was just removed from a cart that still holds a line priced with a
\* modifier, beside another cart.
C1_Witness ==
    /\ request.op = "remove_from_order"
    /\ response.status = 200
    /\ \E s \in DOMAIN orders :
          /\ s = request.data.session_id
          /\ Len(orders[s].items) = 1
          /\ orders[s].items[1].item_total = 5620
          /\ orders[s].total = -5620

\* C7: add_to_order with an item id that the catalog does not hold answers
\* 404 and leaves the session store and the uuid4 count as they were.
C7_UnknownItemLeavesStore ==
    [][ ( /\ request'.op = "add_to_order"
          /\ request'.data.item_id # NoItem
          /\ ~HasItem(request'.data.item_id) )
        => ( /\ response'.status = 404
             /\ response'.success = FALSE
             /\ orders' = orders
             /\ next_uuid' = next_uuid ) ]_vars

\* An unknown item was refused on a request that named a session which is no
\* longer in the store, while another cart holds a line.
C7_Witness ==
    /\ request.op = "add_to_order"
    /\ request.data.item_id = "X9"
    /\ response.status = 404
    /\ request.data.session_id # None
    /\ request.data.session_id \notin DOMAIN orders
    /\ \E s \in DOMAIN orders : Len(orders[s].items) = 1

\* C8: a successful add_to_order appends exactly one line to the end of the
\* cart of the session it returns and changes no line already there; the
\* line's unit total is calculate_item_price of the request's item and
\* modifiers, its subtotal the unit total times the quantity (the unit total
\* itself when the request carries no quantity), its name and base price the
\* catalog's; the total returned and stored is round(previous total +
\* subtotal, 2).
C8_AddAppendsOneLine ==
    [][ (request'.op = "add_to_order" /\ response'.status = 200)
        => LET data == request'.data
               sid == response'.session_id
               line == response'.order_item
               mods == Get(data, "modifier_ids", <<>>)
               before == IF sid \in DOMAIN orders THEN orders[sid]
                         ELSE [items |-> <<>>, total |-> 0]
           IN  /\ (data.session_id # None /\ data.session_id \in DOMAIN orders)
                     => sid = data.session_id
               /\ sid \in DOMAIN orders'
               /\ orders'[sid].items = Append(before.items, line)
               /\ line.item_id = data.item_id
               /\ line.modifier_ids = mods
               /\ line.quantity = Get(data, "quantity", 1)
               /\ line.item_total = calculate_item_price(data.item_id, mods)
               /\ line.subtotal = line.item_total * line.quantity
               /\ "quantity" \notin DOMAIN data => line.subtotal = line.item_total
               /\ line.item_name = Item(data.item_id).name
               /\ line.base_price = Item(data.item_id).base_price
               /\ response'.order_total = Round2(before.total + line.subtotal)
               /\ orders'[sid].total = response'.order_total ]_vars

\* A request without a quantity has just added a second line to a cart.
C8_Witness ==
    /\ request.op = "add_to_order"
    /\ response.status = 200
    /\ "quantity" \notin DOMAIN request.data
    /\ Len(orders[response.session_id].items) = 2
    /\ orders[response.session_id].items[2] = response.order_item
    /\ orders[response.session_id].items[1].subtotal = -5620

\* C9: a successful remove_from_order deletes exactly the line at the index:
\* the cart is one line shorter, the lines before the index stay, the lines
\* after it move down by one, the line returned is the one that was at the
\* index, and the total returned and stored is round(previous total - that
\* line's subtotal, 2).
C9_RemoveDeletesLineAtIndex ==
    [][ (request'.op = "remove_from_order" /\ response'.status = 200)
        => LET sid == request'.data.session_id
               i == request'.data.item_index
               before == orders[sid]
               after == orders'[sid]
           IN  /\ Len(after.items) = Len(before.items) - 1
               /\ \A k \in 1..Len(after.items) :
                     after.items[k] = IF k <= i THEN before.items[k]
                                      ELSE before.items[k + 1]
               /\ response'.removed_item = before.items[i + 1]
               /\ response'.order_total
                     = Round2(before.total - before.items[i + 1].subtotal)
               /\ after.total = response'.order_total ]_vars

\* The spec's example: of lines 16.00 then 8.00, the one at index 0 was
\* removed; the 8.00 line is at index 0 and the total is 8.00.
C9_Witness ==
    /\ request.op = "remove_from_order"
    /\ response.status = 200
    /\ request.data.item_index = 0
    /\ response.removed_item.subtotal = 16000
    /\ response.order_total = 8000
    /\ Len(orders[request.data.session_id].items) = 1
    /\ orders[request.data.session_id].items[1].subtotal = 8000
    /\ orders[request.data.session_id].total = 8000

\* C10: remove_from_order fails and changes nothing when the session id is
\* missing or unknown ("Invalid session", tested first), when the session is
\* known and the index is missing or negative ("Valid item index is
\* required"), and when the session is known and the index is at least the
\* number of lines ("Item index out of range").
C10_RemoveFailures ==
    [][ request'.op = "remove_from_order"
        => LET data == request'.data
               unknown == data.session_id = None
                          \/ data.session_id \notin DOMAIN orders
               noindex == "item_index" \notin DOMAIN data \/ data.item_index < 0
               failed(error) ==
                   /\ response' = [status |-> 400, success |-> FALSE,
                                   error |-> error]
                   /\ orders' = orders
                   /\ next_uuid' = next_uuid
           IN  /\ unknown => failed("Invalid session")
               /\ (~unknown /\ noindex) => failed("Valid item index is required")
               /\ (~unknown /\ ~noindex
                     /\ data.item_index >= Len(orders[data.session_id].items))
                   => failed("Item index out of range") ]_vars

\* A request with neither a known session nor an index was refused for its
\* session, while a cart holds a line.
C10_Witness ==
    /\ request.op = "remove_from_order"
    /\ "item_index" \notin DOMAIN request.data
    /\ request.data.session_id # None
    /\ request.data.session_id \notin DOMAIN orders
    /\ response.status = 400
    /\ response.error = "Invalid session"
    /\ \E s \in DOMAIN orders : Len(orders[s].items) = 1

\* The empty-cart view get_order_summary answers with.
EmptyCartView ==
    [status |-> 200, success |-> TRUE,
     order |-> [items |-> <<>>, total |-> 0, item_count |-> 0]]

\* C11: get_order_summary called with no session id, or with one that is not
\* in the session store (made up, or cleared), succeeds and returns the
\* empty-cart view: no lines, total 0.0, item_count 0.
C11_UnknownSessionSummaryIsEmpty ==
    [][ ( /\ request'.op = "get_order_summary"
          /\ \/ request'.data.session_id = None
             \/ request'.data.session_id \notin DOMAIN orders )
        => response' = EmptyCartView ]_vars

\* The summary of a session cleared earlier was asked for and came back
\* empty, while another cart holds a line.
C11_Witness ==
    /\ request.op = "get_order_summary"
    /\ request.data.session_id \in 1..(next_uuid - 1)
    /\ request.data.session_id \notin DOMAIN orders
    /\ response = EmptyCartView
    /\ \E s \in DOMAIN orders : Len(orders[s].items) = 1

\* C12: clear_order always succeeds; on a known session it removes the
\* session with its cart from the store and leaves the others, on an unknown
\* or absent id it changes nothing; and in the state a clear_order of id s
\* leaves, a clear_order of s again changes nothing and succeeds, a
\* get_order_summary of s returns the empty cart, and a remove_from_order of s
\* fails with "Invalid session".
C12_ClearIdempotent ==
    [][ /\ request'.op = "clear_order"
           => LET sid == request'.data.session_id
              IN  /\ response' = [status |-> 200, success |-> TRUE,
                                  message |-> "Order cleared"]
                  /\ DOMAIN orders' = DOMAIN orders \ {sid}
                  /\ \A t \in DOMAIN orders' : orders'[t] = orders[t]
                  /\ sid \notin DOMAIN orders => orders' = orders
        /\ (request.op = "clear_order"
              /\ request'.op \in {"clear_order", "get_order_summary",
                                  "remove_from_order"}
              /\ request'.data.session_id = request.data.session_id)
           => /\ orders' = orders
              /\ request'.op = "clear_order" => response'.success = TRUE
              /\ request'.op = "get_order_summary" => response' = EmptyCartView
              /\ request'.op = "remove_from_order"
                    => response' = [status |-> 400, success |-> FALSE,
                                    error |-> "Invalid session"] ]_vars

\* clear_order has answered for a session that was created earlier and is no
\* longer in the store, and another session still holds its line.
C12_Witness ==
    /\ request.op = "clear_order"
    /\ response.success = TRUE
    /\ request.data.session_id \in 1..(next_uuid - 1)
    /\ request.data.session_id \notin DOMAIN orders
    /\ \E s \in DOMAIN orders : Len(orders[s].items) = 1

\* C13: in every state of the ledger and for every session id a caller can
\* send, get_or_create_session returns: for a key of the store, that id and
\* the store as it was; for no id or an id that is not a key, an id that was
\* not a key, and the store with one cart more, under that id, without lines
\* and with total 0.0, every other cart as it was.
C13_EnsureSession ==
    \A sid \in SessionInputs :
        LET r == get_or_create_session(sid)
        IN  IF sid \in DOMAIN orders
            THEN r.session_id = sid /\ r.orders = orders
            ELSE /\ r.session_id \notin DOMAIN orders
                 /\ DOMAIN r.orders = DOMAIN orders \cup {r.session_id}
                 /\ r.orders[r.session_id].items = <<>>
                 /\ r.orders[r.session_id].total = 0
                 /\ \A t \in DOMAIN orders : r.orders[t] = orders[t]

\* add_to_order, sent a made-up session id, has just had a second session
\* created: the cart of the first is as it was and the new cart holds the one
\* line the request added.
C13_Witness ==
    /\ request.op = "add_to_order"
    /\ response.status = 200
    /\ request.data.session_id = Foreign
    /\ response.session_id = 2
    /\ DOMAIN orders = {1, 2}
    /\ Len(orders[1].items) = 1
    /\ Len(orders[2].items) = 1
    /\ orders[2].total = orders[2].items[1].subtotal

\* The price of the first option with the id met when the groups are scanned
\* in order, each group's options in order; nothing when there is none.
RECURSIVE FirstMatchPrice(_, _)
FirstMatchPrice(groups, modifier_id) ==
    IF groups = <<>> THEN 0
    ELSE IF \E k \in 1..Len(groups[1].options) :
               groups[1].options[k].id = modifier_id
    THEN GroupPrice(groups[1], modifier_id)
    ELSE FirstMatchPrice(Tail(groups), modifier_id)

\* C14: the unit total of every line in the store is the item's base price
\* plus, for each modifier id of the line, the price of only the first option
\* with that id among the item's required and then optional groups, rounded:
\* an id that occurs in two groups is added once, not once per group.
C14_FirstMatchOnly ==
    \A s \in DOMAIN orders :
        \A k \in 1..Len(orders[s].items) :
            LET line == orders[s].items[k]
                item == Item(line.item_id)
                groups == item.modifiers.required \o item.modifiers.optional
            IN  line.item_total
                  = Round2(item.base_price
                           + Sum([m \in 1..Len(line.modifier_ids) |->
                                    FirstMatchPrice(groups, line.modifier_ids[m])]))

\* C16: get_order_summary leaves the session store, the uuid4 count and the
\* catalog as they were (for an unknown id too: no session is created); its
\* output is determined by the id and the store: the lines, total, line count
\* and creation time of the cart under the id, or the empty-cart view; and a
\* get_order_summary that follows one of the same id returns the same output.
C16_SummaryReadOnly ==
    [][ request'.op = "get_order_summary"
        => LET sid == request'.data.session_id
           IN  /\ orders' = orders
               /\ next_uuid' = next_uuid
               /\ menu_data' = menu_data
               /\ response' =
                     IF sid \in DOMAIN orders
                     THEN [status |-> 200, success |-> TRUE, session_id |-> sid,
                           order |-> [items |-> orders[sid].items,
                                      total |-> orders[sid].total,
                                      item_count |-> Len(orders[sid].items),
                                      created_at |-> orders[sid].created_at]]
                     ELSE EmptyCartView
               /\ (request.op = "get_order_summary"
                     /\ request.data.session_id = sid)
                  => response' = response ]_vars

\* The summary of a cart of two lines was returned, and the cart is in the
\* store as the summary shows it.
C16_Witness ==
    /\ request.op = "get_order_summary"
    /\ request.data.session_id \in DOMAIN orders
    /\ response.order.item_count = 2
    /\ response.order.items = orders[request.data.session_id].items
    /\ response.order.total = orders[request.data.session_id].total

\* How many lines of a cart's list are equal to a line.
Count(items, line) == Cardinality({k \in 1..Len(items) : items[k] = line})

\* The last request was a remove_from_order that succeeded.
Removed == request.op = "remove_from_order" /\ response.status = 200

\* C17 as claimed: a successful remove_from_order makes the cart one line
\* shorter, and a get_order_summary of the same session that follows it
\* shows the cart of that length, with no line equal to the removed one.
C17_RemovedLineAbsent ==
    [][ /\ (request'.op = "remove_from_order" /\ response'.status = 200)
           => Len(orders'[request'.data.session_id].items)
                = Len(orders[request'.data.session_id].items) - 1
        /\ (Removed /\ request'.op = "get_order_summary"
              /\ request'.data.session_id = request.data.session_id)
           => /\ response'.order.item_count
                   = Len(orders[request.data.session_id].items)
              /\ Len(response'.order.items) = response'.order.item_count
              /\ Count(response'.order.items, response.removed_item) = 0 ]_vars

\* C17 as amended: a successful remove_from_order makes the cart one line
\* shorter and leaves one line fewer equal to the removed one, and a
\* get_order_summary of the same session that follows it shows the cart as
\* the removal left it: the line that was at the index is gone, and a line
\* equal to it is shown exactly when the cart held another such line.
C17_RemoveThenSummary ==
    [][ /\ (request'.op = "remove_from_order" /\ response'.status = 200)
           => LET sid == request'.data.session_id
              IN  /\ Len(orders'[sid].items) = Len(orders[sid].items) - 1
                  /\ orders'[sid].items
                       = Pop(orders[sid].items, request'.data.item_index + 1)
                  /\ Count(orders'[sid].items, response'.removed_item)
                       = Count(orders[sid].items, response'.removed_item) - 1
        /\ (Removed /\ request'.op = "get_order_summary"
              /\ request'.data.session_id = request.data.session_id)
           => /\ response'.order.items = orders[request.data.session_id].items
              /\ response'.order.item_count
                   = Len(orders[request.data.session_id].items) ]_vars

\* Of two equal lines of a cart one was just removed: the cart holds one
\* line, equal to the line the removal returned.
C17_Witness ==
    /\ Removed
    /\ Len(orders[request.data.session_id].items) = 1
    /\ Count(orders[request.data.session_id].items, response.removed_item) = 1

\* C20: a request to the ledger, whether it succeeds or fails, leaves every
\* session other than the one it addresses (the one add_to_order returns, the
\* one the body of another request names) in the store with its lines and
\* total as they were, adds no other session, and leaves the catalog as it
\* was; a request that fails changes no session at all.
C20_SessionsIndependent ==
    [][ request'.op \in {"add_to_order", "remove_from_order", "clear_order",
                         "get_order_summary"}
        => LET addressed ==
                   IF request'.op = "add_to_order"
                   THEN (IF response'.status = 200 THEN response'.session_id
                         ELSE None)
                   ELSE request'.data.session_id
           IN  /\ \A t \in DOMAIN orders \ {addressed} :
                     t \in DOMAIN orders' /\ orders'[t] = orders[t]
               /\ DOMAIN orders' \subseteq DOMAIN orders \cup {addressed}
               /\ menu_data' = menu_data
               /\ response'.status # 200 => orders' = orders ]_vars

\* The only line of one session was just removed, and another session holds
\* its line.
C20_Witness ==
    /\ Removed
    /\ DOMAIN orders = {1, 2}
    /\ Len(orders[request.data.session_id].items) = 0
    /\ \E t \in DOMAIN orders \ {request.data.session_id} :
          Len(orders[t].items) = 1 /\ orders[t].total = orders[t].items[1].subtotal

\* C22: a session id becomes a key of the store only in an add_to_order that
\* passed the item validation and answers with that id; a key leaves the
\* store only in a clear_order of that id; in between the session's lines
\* change only in a successful add_to_order or remove_from_order on it; and a
\* successful remove_from_order leaves its session in the store, with zero
\* lines when it removed the last one.
C22_SessionLifecycle ==
    [][ /\ \A s \in DOMAIN orders' \ DOMAIN orders :
              /\ request'.op = "add_to_order"
              /\ HasItem(request'.data.item_id)
              /\ response'.status = 200
              /\ response'.session_id = s
        /\ \A s \in DOMAIN orders \ DOMAIN orders' :
              /\ request'.op = "clear_order"
              /\ request'.data.session_id = s
        /\ \A s \in DOMAIN orders \cap DOMAIN orders' :
              orders'[s].items # orders[s].items
              => \/ /\ request'.op = "add_to_order"
                    /\ response'.status = 200
                    /\ response'.session_id = s
                 \/ /\ request'.op = "remove_from_order"
                    /\ response'.status = 200
                    /\ request'.data.session_id = s
        /\ (request'.op = "remove_from_order" /\ response'.status = 200)
           => request'.data.session_id \in DOMAIN orders' ]_vars

\* The only line of the only session was just removed: the session is in the
\* store with no line and total 0.0.
C22_Witness ==
    /\ Removed
    /\ DOMAIN orders = {request.data.session_id}
    /\ orders[request.data.session_id].items = <<>>
    /\ orders[request.data.session_id].total = 0

---------------------------------------------------------------------------
(* Properties of the resolution engine, checked under SearchSpec. *)

\* The engine ran on the last request: called directly, or by a search_menu
\* that passed its validation.
Ran ==
    \/ request.op = "search_items"
    \/ request.op = "search_menu" /\ response.status = 200

\* The query and the threshold the engine ran on, and the list that came back
\* (search_menu returns its first five elements).
LastQuery ==
    IF request.op = "search_items" THEN request.query
    ELSE strip(Get(request.data, "query", <<>>))
LastThreshold ==
    IF request.op = "search_items" THEN request.threshold ELSE <<6, 10>>
LastResults ==
    IF request.op = "search_items" THEN response ELSE response.results

\* The tiers, stated on a query and an item name.
SameName(query, name) == lower(query) = lower(name)
Overlap(query, name) ==
    In(lower(query), lower(name)) \/ In(lower(name), lower(query))
Similarity(query, name) == ratio(lower(query), lower(name))

\* The position of an item id in the catalog's iteration order.
Position(id) == CHOOSE k \in 1..Len(menu_data) : menu_data[k].id = id

\* Some result of the list carries the id.
Returned(results, id) == \E i \in 1..Len(results) : results[i].id = id

\* C2 as claimed: for every catalog item, the engine called with a query equal
\* to the item's name up to case returns that item first, 'exact', 1.0.
C2_ExactNameReturnsItemFirst ==
    request.op = "search_items"
    => \A k \in 1..Len(menu_data) :
          SameName(request.query, menu_data[k].name)
          => /\ response # <<>>
             /\ response[1].id = menu_data[k].id
             /\ response[1].match_type = "exact"
             /\ response[1].score = <<1, 1>>

\* C2 as amended: for every catalog item, the engine called with a query equal
\* to the item's name up to case returns a list that holds the item as
\* 'exact' with score 1.0 and whose first element is, 'exact' with score 1.0,
\* the first item in catalog order with that name up to case: the item itself
\* unless an earlier item shares its name.
C2_ExactNameReturnsFirstOfName ==
    request.op = "search_items"
    => \A k \in 1..Len(menu_data) :
          SameName(request.query, menu_data[k].name)
          => LET first == CHOOSE j \in 1..k :
                             /\ SameName(request.query, menu_data[j].name)
                             /\ \A h \in 1..(j - 1) :
                                   ~SameName(request.query, menu_data[h].name)
             IN  /\ response # <<>>
                 /\ response[1].id = menu_data[first].id
                 /\ response[1].match_type = "exact"
                 /\ response[1].score = <<1, 1>>
                 /\ \E i \in 1..Len(response) :
                       /\ response[i].id = menu_data[k].id
                       /\ response[i].match_type = "exact"
                       /\ response[i].score = <<1, 1>>

\* The engine was called with the name, up to case, that the two items of
\* the catalog share, and returned both.
C2_Witness ==
    /\ request.op = "search_items"
    /\ Len(menu_data) = 2
    /\ SameName(request.query, menu_data[1].name)
    /\ SameName(request.query, menu_data[2].name)
    /\ menu_data[1].name # menu_data[2].name
    /\ Len(response) = 2
    /\ response[1].id = menu_data[1].id

\* C3: the list holds at most one result per catalog item, every result is an
\* item of the catalog (id, name, category, price), and its classification is
\* the first tier that matches: 'exact' with 1.0 when the names are equal up
\* to case, else 'partial' with 0.9 when one contains the other, else 'fuzzy'
\* with the similarity ratio.
C3_OneResultPerItemFirstTier ==
    Ran
    => /\ \A i, j \in 1..Len(LastResults) :
             LastResults[i].id = LastResults[j].id => i = j
       /\ \A i \in 1..Len(LastResults) :
             LET r == LastResults[i]
             IN  \E k \in 1..Len(menu_data) :
                    LET item == menu_data[k]
                    IN  /\ r.id = item.id
                        /\ r.name = item.name
                        /\ r.category = item.category
                        /\ r.price = item.base_price
                        /\ IF SameName(LastQuery, item.name)
                           THEN r.match_type = "exact" /\ r.score = <<1, 1>>
                           ELSE IF Overlap(LastQuery, item.name)
                           THEN r.match_type = "partial" /\ r.score = <<9, 10>>
                           ELSE /\ r.match_type = "fuzzy"
                                /\ r.score = Similarity(LastQuery, item.name)

\* A search returned an exact match and a partial one.
C3_Witness ==
    /\ Ran
    /\ Len(LastResults) = 2
    /\ LastResults[1].match_type = "exact"
    /\ LastResults[2].match_type = "partial"

\* C4: every 'fuzzy' result has a score of at least the threshold; an item
\* that is neither an exact nor a partial match is returned exactly when its
\* similarity ratio is at least the threshold; an exact or partial match is
\* returned whatever the threshold.
C4_ThresholdGatesOnlyFuzzy ==
    request.op = "search_items"
    => /\ \A i \in 1..Len(response) :
             response[i].match_type = "fuzzy"
             => ScoreGE(response[i].score, request.threshold)
       /\ \A k \in 1..Len(menu_data) :
             LET item == menu_data[k]
             IN  IF SameName(request.query, item.name)
                    \/ Overlap(request.query, item.name)
                 THEN Returned(response, item.id)
                 ELSE Returned(response, item.id)
                      <=> ScoreGE(Similarity(request.query, item.name),
                                  request.threshold)

\* Under a threshold of 1.1 the engine returned a partial match and left out
\* an item whose ratio is 0.8.
C4_Witness ==
    /\ request.op = "search_items"
    /\ request.threshold = <<11, 10>>
    /\ Len(menu_data) = 2
    /\ Len(response) = 1
    /\ response[1].match_type = "partial"
    /\ \E k \in 1..2 : Similarity(request.query, menu_data[k].name) = <<4, 5>>

\* C5: the list is in non-increasing order of score, and two results of equal
\* score are in the order of their items in the catalog.
C5_SortedStable ==
    Ran
    => \A i, j \in 1..Len(LastResults) :
          i < j
          => /\ ScoreGE(LastResults[i].score, LastResults[j].score)
             /\ ScoreEQ(LastResults[i].score, LastResults[j].score)
                => Position(LastResults[i].id) < Position(LastResults[j].id)

\* A search returned two fuzzy matches of equal score.
C5_Witness ==
    /\ Ran
    /\ Len(LastResults) = 2
    /\ LastResults[1].match_type = "fuzzy"
    /\ LastResults[2].match_type = "fuzzy"
    /\ ScoreEQ(LastResults[1].score, LastResults[2].score)

\* No item of the catalog matches the query in any tier under the threshold.
NoMatch(query, threshold) ==
    \A k \in 1..Len(menu_data) :
        /\ ~SameName(query, menu_data[k].name)
        /\ ~Overlap(query, menu_data[k].name)
        /\ ~ScoreGE(Similarity(query, menu_data[k].name), threshold)

\* C6: when no item matches, the engine returns the empty list, and
\* search_menu answers 200 with success, found = false and no results.
C6_NoMatchIsEmptySuccess ==
    /\ (request.op = "search_items" /\ NoMatch(request.query, request.threshold))
       => response = <<>>
    /\ (request.op = "search_menu" /\ LastQuery # <<>> /\ NoMatch(LastQuery, <<6, 10>>))
       => /\ response.status = 200
          /\ response.success = TRUE
          /\ response.found = FALSE
          /\ response.results = <<>>

\* search_menu found nothing in a catalog of two items.
C6_Witness ==
    /\ request.op = "search_menu"
    /\ Len(menu_data) = 2
    /\ response.status = 200
    /\ response.found = FALSE
    /\ response.results = <<>>

\* C18: search_menu answers a body whose query is missing, empty or blank
\* with the validation error 400 "Search query is required" and nothing of a
\* search (no results, no found, no total_matches): the engine is not run on
\* the empty string, on which it would return every named item of the
\* catalog as 'partial'.
C18_EmptyQueryRejected ==
    /\ (request.op = "search_menu" /\ LastQuery = <<>>)
       => response = [status |-> 400, success |-> FALSE,
                      error |-> "Search query is required"]
    /\ request.op = "search_menu"
       => (response.status = 400 <=> LastQuery = <<>>)
    /\ \A k \in 1..Len(menu_data) :
          menu_data[k].name # <<>>
          => /\ Len(search_items(<<>>, <<6, 10>>)) = Len(menu_data)
             /\ search_items(<<>>, <<6, 10>>)[k].id = menu_data[k].id
             /\ search_items(<<>>, <<6, 10>>)[k].match_type = "partial"

\* A query of two blanks was refused on a catalog of two items.
C18_Witness ==
    /\ request.op = "search_menu"
    /\ Get(request.data, "query", <<>>) = <<" ", " ">>
    /\ Len(menu_data) = 2
    /\ response.status = 400
    /\ response.error = "Search query is required"

\* C19: when the engine finds n >= 1 results for the stripped query,
\* search_menu answers found = true with total_matches = n and, as results,
\* the first min(5, n) elements of the engine's ranked list, in its order.
C19_TopFiveAndTotal ==
    (request.op = "search_menu" /\ LastQuery # <<>>)
    => LET ranked == search_items(LastQuery, <<6, 10>>)
           n == Len(ranked)
       IN  n >= 1
           => /\ response.status = 200
              /\ response.found = TRUE
              /\ response.total_matches = n
              /\ Len(response.results) = (IF n < 5 THEN n ELSE 5)
              /\ \A i \in 1..Len(response.results) :
                    response.results[i] = ranked[i]

\* search_menu found six items and returned five: the three exact matches in
\* catalog order, then the first two partial ones.
C19_Witness ==
    /\ request.op = "search_menu"
    /\ response.status = 200
    /\ response.found = TRUE
    /\ response.total_matches = 6
    /\ [i \in 1..5 |-> response.results[i].id] = <<"B1", "B3", "B6", "B2", "B4">>

---------------------------------------------------------------------------
(* Properties of the pricing function, checked under PriceSpec. *)

\* Some option of some group of the item carries the id.
Matched(item, modifier_id) ==
    LET groups == item.modifiers.required \o item.modifiers.optional
    IN  \E g \in 1..Len(groups) : \E k \in 1..Len(groups[g].options) :
           groups[g].options[k].id = modifier_id

\* No option of the item has a negative price.
DeltasNonNegative(item) ==
    LET groups == item.modifiers.required \o item.modifiers.optional
    IN  \A g \in 1..Len(groups) : \A k \in 1..Len(groups[g].options) :
           groups[g].options[k].price >= 0

\* C15: calculate_item_price returns 0.0 for an item id the catalog does not
\* hold; for an item of the catalog, the modifier ids that match no option of
\* the item add nothing (the result is that of the call without them), so a
\* call with no modifier id or with unmatched ones only returns the base
\* price rounded to 2 digits; and the result is not below the base price
\* when no option has a negative price.
C15_AbsentItemAndUnmatchedModifiers ==
    request.op = "calculate_item_price"
    => IF ~HasItem(request.item_id) THEN response = 0
       ELSE LET item == Item(request.item_id)
                modifier_ids == request.modifier_ids
                matched(m) == Matched(item, m)
            IN  /\ response = calculate_item_price(request.item_id,
                                                   SelectSeq(modifier_ids, matched))
                /\ (\A m \in 1..Len(modifier_ids) : ~matched(modifier_ids[m]))
                   => response = Round2(item.base_price)
                /\ DeltasNonNegative(item) => response >= item.base_price

\* The function was called on O1 with two modifier ids, the first matching no
\* option, and returned the base price plus the second's 0.125, rounded.
C15_Witness ==
    /\ request.op = "calculate_item_price"
    /\ request.item_id = "O1"
    /\ request.modifier_ids = <<"m9", "m2">>
    /\ Item("O1").base_price = 5750
    /\ response = 5880

---------------------------------------------------------------------------
(* Properties of the handlers run concurrently, checked under ConcSpec. *)

\* No handler is under way.
Quiescent == \A t \in Threads : threads[t].pc = "idle"

\* How many elements of a log are the session id.
Occurrences(log, session_id) ==
    Cardinality({k \in 1..Len(log) : log[k] = session_id})

\* The additions to and the removals from a session that completed with
\* success, over all threads.
Added(session_id) ==
    Sum([t \in Threads |-> Occurrences(threads[t].added, session_id)])
Removed_(session_id) ==
    Sum([t \in Threads |-> Occurrences(threads[t].removed, session_id)])

\* C21: whatever the interleaving of the steps of add_to_order and
\* remove_from_order handlers on a session, once they have all returned the
\* cart's total is the sum of its lines' subtotals rounded to 2 digits, and
\* the cart holds as many lines as additions completed less removals
\* completed.
C21_MutationsAtomic ==
    Quiescent
    => \A s \in DOMAIN orders :
          /\ orders[s].total = Round2(Sum(Subtotals(orders[s])))
          /\ Len(orders[s].items) = Added(s) - Removed_(s)

\* C25: no handler that passed its validations ends in an unhandled
\* internal error, whatever runs between its steps: every response is a
\* success or one of the documented validation errors (400, 404), in
\* particular that of an add_to_order whose session is cleared between its
\* session resolution and its append, and those of two remove_from_order
\* that both passed the range check on one cart.
C25_NoInternalError ==
    \A t \in Threads : threads[t].response.status \in {0, 200, 400, 404}

\* An add_to_order of a valid item was answered with an internal error after
\* a clear_order of its session.
C25_AddAfterClear ==
    \E t \in Threads, u \in Threads :
        /\ t # u
        /\ threads[t].response = internal_error
        /\ threads[t].added # <<>>
        /\ threads[u].response = [status |-> 200, success |-> TRUE,
                                  message |-> "Order cleared"]
        /\ orders = <<>>

\* Of two remove_from_order of index 0 on a cart of one line, one was
\* answered with success and the other with an internal error.
C25_RemoveAfterRemove ==
    \E t \in Threads, u \in Threads :
        /\ t # u
        /\ threads[t].response = internal_error
        /\ threads[u].response.status = 200
        /\ threads[u].removed # <<>>
        /\ \E s \in DOMAIN orders : orders[s].items = <<>>

---------------------------------------------------------------------------
(* Further properties of the order ledger, checked under Spec. *)

\* C23: in every state, every line of every cart has an item id of the
\* catalog and modifier ids that each are the id of an option of one of that
\* item's modifier groups.
C23_LinesResolve ==
    \A s \in DOMAIN orders :
        \A k \in 1..Len(orders[s].items) :
            LET line == orders[s].items[k]
            IN  /\ HasItem(line.item_id)
                /\ \A m \in 1..Len(line.modifier_ids) :
                      Matched(Item(line.item_id), line.modifier_ids[m])

\* C24: add_to_order passes the quantity through: a request for a catalog
\* item with a quantity of zero or less is answered 200, appends a line of
\* that quantity whose subtotal is its unit total times the quantity (zero or
\* negative), and adds that subtotal to the cart's total.
C24_QuantityPassThrough ==
    [][ ( /\ request'.op = "add_to_order"
          /\ HasItem(request'.data.item_id)
          /\ Get(request'.data, "quantity", 1) <= 0 )
        => /\ response'.status = 200
           /\ LET session_id == response'.session_id
                   quantity == request'.data.quantity
                   before == IF session_id \in DOMAIN orders
                             THEN orders[session_id]
                             ELSE [items |-> <<>>, total |-> 0]
                   line == response'.order_item
               IN  /\ session_id \in DOMAIN orders'
                   /\ orders'[session_id].items = Append(before.items, line)
                   /\ line.quantity = quantity
                   /\ line.item_total =
                         calculate_item_price(line.item_id, line.modifier_ids)
                   /\ line.subtotal = line.item_total * quantity
                   /\ line.subtotal <= 0
                   /\ orders'[session_id].total =
                         Round2(before.total + line.subtotal)
                   /\ response'.order_total = orders'[session_id].total ]_vars

\* One cart holds a line and totals zero, another totals below zero, and the
\* last request added a line of quantity zero or less.
C24_Witness ==
    /\ request.op = "add_to_order"
    /\ response.status = 200
    /\ Get(request.data, "quantity", 1) <= 0
    /\ \E s, t \in DOMAIN orders :
          /\ orders[s].items # <<>> /\ orders[s].total = 0
          /\ orders[t].total < 0

\* C26: the keys of orders are identifiers minted by uuid4, never one a caller
\* chose: every key is an identifier minted so far; a key that enters the
\* store is the one minted in that step, differs from the session id of the
\* request and is returned in the response; an add_to_order that succeeds with
\* a session id that is not a key opens such a cart.  Identifiers minted
\* earlier, a cleared one among them, hence never enter the store again.
C26_KeysAreMinted ==
    [][ /\ DOMAIN orders \subseteq 1..(next_uuid - 1)
        /\ DOMAIN orders' \subseteq 1..(next_uuid' - 1)
        /\ next_uuid' >= next_uuid
        /\ \A s \in DOMAIN orders' \ DOMAIN orders :
              /\ s \notin 1..(next_uuid - 1)
              /\ s \in 1..(next_uuid' - 1)
              /\ request'.op = "add_to_order"
              /\ s # request'.data.session_id
              /\ response'.status = 200
              /\ response'.session_id = s
        /\ ( /\ request'.op = "add_to_order"
             /\ response'.status = 200
             /\ request'.data.session_id \notin DOMAIN orders )
           => /\ response'.session_id # request'.data.session_id
              /\ response'.session_id \in DOMAIN orders' \ DOMAIN orders
              /\ request'.data.session_id \notin DOMAIN orders'
              /\ Len(orders'[response'.session_id].items) = 1 ]_vars

\* An add_to_order that named a session cleared earlier was answered with
\* another session id, and the cleared one is not a key.
C26_Witness ==
    /\ request.op = "add_to_order"
    /\ response.status = 200
    /\ request.data.session_id \in 1..(next_uuid - 1)
    /\ request.data.session_id \notin DOMAIN orders
    /\ response.session_id # request.data.session_id
    /\ response.session_id \in DOMAIN orders

=============================================================================
